---- MODULE Spec2Model ----
(***************************************************************************)
(* Model of the IR stream decoding and event-buffering engine of clp-wasm: *)
(*   - ClpIrV1Decoder (src/src/ClpIrV1Decoder.cpp): the one-time build     *)
(*     pass over the byte stream, the event buffer and the range decoder;  *)
(*   - StreamReader::create (src/src/clp_ffi_js/ir/StreamReader.cpp): the  *)
(*     preamble validation and version probing done at creation.           *)
(* Strings of the program are sequences of one-character strings.          *)
(***************************************************************************)
EXTENDS Integers, Sequences, FiniteSets, TLC

(***************************************************************************)
(* Bounds of the model.                                                    *)
(***************************************************************************)
\* Longest record section of an input stream, in records.
MaxStreamLen == 3
\* Largest index a caller passes to build_idx / decode.
MaxIdx == 3
\* Number of build_idx calls made on one instance.
MaxBuildCalls == 2
\* Most bytes get_encoding_type reads from the input.
MaxTagLen == 2
\* Most bytes deserialize_preamble reads from the input.
MaxPreambleLen == 2
MaxNodes == 2
MaxStructuredEvents == 2

(***************************************************************************)
(* Program constants.                                                      *)
(***************************************************************************)
cDefaultNumLogEvents == 500000
cFullRangeEndIdx == 0
cLogLevelNone == 0

\* Variable placeholders and the escape character of a logtype
\* (clp::ir::VariablePlaceholder, used by generic_decode_message).
IntPlaceholder == "<int>"
DictPlaceholder == "<dict>"
FloatPlaceholder == "<float>"
EscapeChar == "\\"

\* The error codes deserialize_log_event reports, as build_idx tells them apart.
no_message_available == "no_message_available"
result_out_of_range == "result_out_of_range"
protocol_error == "protocol_error"

(***************************************************************************)
(* Input streams.  A stream is the record section that follows the         *)
(* preamble: event records, an end-of-stream record, a record cut off      *)
(* mid-record, or a record that is malformed in any other way.             *)
(***************************************************************************)
EventRecord(lt, ev, dv) ==
    [kind |-> "Event", logtype |-> lt, encoded_vars |-> ev, dict_vars |-> dv]

MarkerRecord(k) ==
    [kind |-> k, logtype |-> <<>>, encoded_vars |-> <<>>, dict_vars |-> <<>>]

\* Event records the input streams are built from: a message that carries a
\* level name, an encoded integer and an encoded float; one whose logtype
\* asks for a dictionary variable the event does not have; and one with an
\* empty logtype.
InfoEvent ==
    EventRecord(<<" ", "I", "N", "F", "O", " ", IntPlaceholder, " ", FloatPlaceholder>>,
                <<42, 20113>>, <<>>)
MissingVarEvent == EventRecord(<<"v", DictPlaceholder>>, <<>>, <<>>)
EmptyEvent == EventRecord(<<>>, <<>>, <<>>)

EventRecords == {InfoEvent, MissingVarEvent, EmptyEvent}

Records == EventRecords \cup {MarkerRecord("Eos"), MarkerRecord("Incomplete"),
                              MarkerRecord("Corrupt")}

RECURSIVE SeqsUpTo(_, _)
SeqsUpTo(S, n) ==
    IF n = 0 THEN {<<>>}
    ELSE LET shorter == SeqsUpTo(S, n - 1)
         IN  shorter \cup {Append(s, x) : s \in {t \in shorter : Len(t) = n - 1}, x \in S}

Streams == SeqsUpTo(Records, MaxStreamLen)

VARIABLES
    stream,            \* the record section of the input (fixed after Init)
    readPos,           \* number of records the deserializer has pulled
    m_log_events,      \* ClpIrV1Decoder::m_log_events
    capacity,          \* m_log_events.capacity()
    m_data_buffer,     \* ClpIrV1Decoder::m_data_buffer: "owned" or "null"
    pc,                \* "idle", or "loop" while build_idx is inside its while loop
    passState,         \* "NotStarted", "Reading", "Done", "Truncated", "Fatal"
    numDeserializeCalls, \* how often deserialize_log_event was invoked
    numReleases,       \* how often the backing buffer was freed
    numBuildCalls,     \* how many build_idx calls were made
    firstBuild,        \* outcome of the build_idx call that ran the pass
    lastBuild,         \* outcome of the latest call, if that was a build_idx call
    lastBuildArgs,     \* <<begin_idx, end_idx>> of that call, <<>> if there is none
    lastDecode,        \* outcome of the latest call, if that was a decode call, with
                       \* its arguments and the buffer size and pass state it was
                       \* made in
    data_array,        \* the input handed to StreamReader::create
    createResult,      \* what StreamReader::create did with it
    m_filtered_log_event_map,  \* the optional filter index of the stream reader
    lastFilter,        \* the log_level_filter of the latest filter_log_events call
    handler,           \* the members of a StructuredIrUnitHandler
    lastHandled        \* the latest IR unit handed to it, with the result

vars == <<stream, readPos, m_log_events, capacity, m_data_buffer, pc, passState,
          numDeserializeCalls, numReleases, numBuildCalls, firstBuild, lastBuild,
          lastBuildArgs, lastDecode, data_array, createResult,
          m_filtered_log_event_map, lastFilter, handler, lastHandled>>

\* the part of the state StreamReader::create works on
createVars == <<data_array, createResult>>

\* the filter index with the request that made it
filterVars == <<m_filtered_log_event_map, lastFilter>>

\* the part of the state a StructuredIrUnitHandler works on
handlerVars == <<handler, lastHandled>>

(***************************************************************************)
(* Encoded-variable codec (clp::ffi), as the handlers of decode use it.    *)
(***************************************************************************)
DigitChar(d) == <<"0", "1", "2", "3", "4", "5", "6", "7", "8", "9">>[d + 1]

RECURSIVE NatDigits(_)
NatDigits(n) ==
    IF n < 10 THEN <<DigitChar(n)>>
    ELSE Append(NatDigits(n \div 10), DigitChar(n % 10))

\* digits of n, left-padded with zeros to width w
RECURSIVE PadDigits(_, _)
PadDigits(n, w) ==
    IF w <= 0 THEN <<>>
    ELSE Append(PadDigits(n \div 10, w - 1), DigitChar(n % 10))

\* An encoded integer is the integer itself; its text is its decimal form.
decode_integer_var(value) ==
    IF value < 0 THEN <<"-">> \o NatDigits(-value) ELSE NatDigits(value)

\* A four-byte encoded float packs, from the low bits up: the position of the
\* decimal point from the right minus one (3 bits), the number of digits
\* minus one (3 bits) and the digits as an integer (25 bits).
decode_float_var(encoded_float) ==
    LET decimal_pos == (encoded_float % 8) + 1
        num_digits == ((encoded_float \div 8) % 8) + 1
        digits == PadDigits((encoded_float \div 64) % 33554432, num_digits)
        split == IF num_digits > decimal_pos THEN num_digits - decimal_pos ELSE 0
    IN  SubSeq(digits, 1, split) \o <<".">> \o SubSeq(digits, split + 1, num_digits)

(***************************************************************************)
(* generic_decode_message with the four handlers of decode: the constant   *)
(* handler, the integer, float and dictionary handlers all append to       *)
(* `message`.  ok = FALSE stands for a DecodingException.                  *)
(***************************************************************************)
RECURSIVE DecodeMessageFrom(_, _, _, _, _, _, _)
DecodeMessageFrom(logtype, encoded_vars, dict_vars, pos, ev_ix, dv_ix, message) ==
    IF pos > Len(logtype) THEN [ok |-> TRUE, message |-> message]
    ELSE LET c == logtype[pos]
             failed == [ok |-> FALSE, message |-> message]
         IN  CASE c = FloatPlaceholder ->
                    IF ev_ix > Len(encoded_vars) THEN failed
                    ELSE DecodeMessageFrom(logtype, encoded_vars, dict_vars, pos + 1,
                            ev_ix + 1, dv_ix,
                            message \o decode_float_var(encoded_vars[ev_ix]))
               [] c = IntPlaceholder ->
                    IF ev_ix > Len(encoded_vars) THEN failed
                    ELSE DecodeMessageFrom(logtype, encoded_vars, dict_vars, pos + 1,
                            ev_ix + 1, dv_ix,
                            message \o decode_integer_var(encoded_vars[ev_ix]))
               [] c = DictPlaceholder ->
                    IF dv_ix > Len(dict_vars) THEN failed
                    ELSE DecodeMessageFrom(logtype, encoded_vars, dict_vars, pos + 1,
                            ev_ix, dv_ix + 1, message \o dict_vars[dv_ix])
               [] c = EscapeChar ->
                    IF pos = Len(logtype) THEN failed
                    ELSE DecodeMessageFrom(logtype, encoded_vars, dict_vars, pos + 2,
                            ev_ix, dv_ix, Append(message, logtype[pos + 1]))
               [] OTHER ->
                    DecodeMessageFrom(logtype, encoded_vars, dict_vars, pos + 1,
                            ev_ix, dv_ix, Append(message, c))

generic_decode_message(log_event) ==
    DecodeMessageFrom(log_event.logtype, log_event.encoded_vars, log_event.dict_vars,
                      1, 1, 1, <<>>)

(***************************************************************************)
(* Log level of a rendered message (the loop over cLogLevelNames).         *)
(***************************************************************************)
cLogLevelNames ==
    << <<"N", "O", "N", "E">>, <<"T", "R", "A", "C", "E">>, <<"D", "E", "B", "U", "G">>,
       <<"I", "N", "F", "O">>, <<"W", "A", "R", "N">>, <<"E", "R", "R", "O", "R">>,
       <<"F", "A", "T", "A", "L">> >>

starts_with(s, prefix) ==
    /\ Len(prefix) <= Len(s)
    /\ SubSeq(s, 1, Len(prefix)) = prefix

\* message.substr(1) throws std::out_of_range when the message is empty.
SubstrRaises(message) == Len(message) < 1

substr1(message) == SubSeq(message, 2, Len(message))

\* i runs over the 0-based table indices 1 .. size-1; the first match wins.
LogLevelOf(message) ==
    LET matches == {i \in 1..(Len(cLogLevelNames) - 1) :
                        starts_with(substr1(message), cLogLevelNames[i + 1])}
    IN  IF matches = {} THEN cLogLevelNone
        ELSE CHOOSE i \in matches : \A j \in matches : i <= j

\* m_ts_pattern.insert_formatted_timestamp: the timestamp's text is put in
\* front of the message.
insert_formatted_timestamp(timestamp, message) ==
    NatDigits(timestamp) \o <<" ">> \o message

(***************************************************************************)
(* ClpIrV1Decoder::decode.  The result is null, an array of tuples         *)
(* <<message, timestamp, log level, event number>>, or an exception that   *)
(* leaves decode (std::out_of_range from substr).  failed_at is the buffer *)
(* index of the event whose DecodingException the call caught, -1 if none. *)
(***************************************************************************)
NullResult == [kind |-> "null", tuples |-> <<>>, failed_at |-> -1]

\* (variant: the tuples rendered before the failure are dropped)
RenderFailureDropsBatch(index, results) ==
    [kind |-> "array", tuples |-> <<>>, failed_at |-> index]

\* the catch block of decode: the failure is logged and the loop is left
\* with the results gathered so far
RenderFailure(index, results) ==
    [kind |-> "array", tuples |-> results, failed_at |-> index]

\* (variant: the position of the event inside the requested range)
EventNumberInRange(begin_idx, offset) == offset + 1

\* the position of the event in the buffer, counted from 1
EventNumber(begin_idx, offset) == begin_idx + offset + 1

\* the for loop over log_events_span; offset is &log_event - span.data()
RECURSIVE DecodeSpan(_, _, _, _, _)
DecodeSpan(log_events, begin_idx, end_idx, offset, results) ==
    IF begin_idx + offset >= end_idx
    THEN [kind |-> "array", tuples |-> results, failed_at |-> -1]
    ELSE LET log_event == log_events[begin_idx + offset + 1]
             decoded == generic_decode_message(log_event)
         IN  IF ~decoded.ok THEN RenderFailure(begin_idx + offset, results)
             ELSE IF SubstrRaises(decoded.message)
                  THEN [kind |-> "out_of_range", tuples |-> <<>>, failed_at |-> -1]
             ELSE DecodeSpan(log_events, begin_idx, end_idx, offset + 1,
                     Append(results,
                        <<insert_formatted_timestamp(log_event.timestamp, decoded.message),
                          log_event.timestamp,
                          LogLevelOf(decoded.message),
                          EventNumber(begin_idx, offset)>>))

\* begin_idx is a size_t, so 0 > begin_idx never holds.
RangeRejected(size, begin_idx, end_idx) ==
    0 > begin_idx \/ size < end_idx \/ begin_idx >= end_idx

decode(log_events, begin_idx, end_idx) ==
    IF RangeRejected(Len(log_events), begin_idx, end_idx) THEN NullResult
    ELSE DecodeSpan(log_events, begin_idx, end_idx, 0, <<>>)

(***************************************************************************)
(* The log event deserializer, seen from build_idx: each call pulls the    *)
(* next record and yields an event or an error code.  The timestamp of an  *)
(* event is its absolute time; the model takes the record's position.      *)
(***************************************************************************)
\* At the physical end of the input the library reports eof_error.
deserialize_log_event(records, pos, eof_error) ==
    IF pos > Len(records) THEN [has_error |-> TRUE, error |-> eof_error, value |-> <<>>]
    ELSE LET r == records[pos]
         IN  CASE r.kind = "Event" ->
                    [has_error |-> FALSE, error |-> "",
                     value |-> <<[logtype |-> r.logtype, encoded_vars |-> r.encoded_vars,
                                  dict_vars |-> r.dict_vars, timestamp |-> pos]>>]
               [] r.kind = "Eos" ->
                    [has_error |-> TRUE, error |-> no_message_available, value |-> <<>>]
               [] r.kind = "Incomplete" ->
                    [has_error |-> TRUE, error |-> result_out_of_range, value |-> <<>>]
               [] OTHER ->
                    [has_error |-> TRUE, error |-> protocol_error, value |-> <<>>]

\* (variant: the vector's capacity instead of its size)
NumEventsFromCapacity == capacity

\* get_estimated_num_events
get_estimated_num_events == Len(m_log_events)

\* (variant: the reserve call is left out, the capacity stays as it is)
ReserveOmitted(cap, n) == cap

\* std::vector: reserve never shrinks; emplace_back grows a full vector.
reserve(cap, n) == IF cap < n THEN n ELSE cap

CapacityAfterEmplace(cap, size) ==
    IF size < cap THEN cap ELSE IF cap = 0 THEN 1 ELSE 2 * cap

\* outcomes of a build_idx call
\* (call is the number of the call among the build_idx calls on the instance)
NoOutcome == [kind |-> "none", numValidEvents |-> -1, call |-> 0]
Returned(n, call) == [kind |-> "count", numValidEvents |-> n, call |-> call]
Thrown(code, call) == [kind |-> code, numValidEvents |-> -1, call |-> call]

(***************************************************************************)
(* StreamReader::create.  The input is described by what the library calls *)
(* make of it: the encoding type get_encoding_type finds and the bytes it  *)
(* reads, whether deserialize_preamble succeeds and the bytes it reads,    *)
(* the metadata document, and whether the event deserializer can be set up.*)
(***************************************************************************)
\* the protocol versions an unstructured stream reader exists for
cUnstructuredIrVersions == {"v0.0.2", "v0.0.1", "v0.0.0", "0.0.2", "0.0.1", "0.0.0"}

\* version strings found in the metadata of the inputs
InputVersions == {"0.0.2", "v0.0.1", "0.1.0", "bogus"}

\* a metadata document: not JSON at all, JSON without the version key, or
\* JSON with a version
Metadata(parses, has_version, version) ==
    [parses |-> parses, has_version |-> has_version, version |-> version]

Metadatas ==
    {Metadata(FALSE, FALSE, ""), Metadata(TRUE, FALSE, "")}
        \cup {Metadata(TRUE, TRUE, v) : v \in InputVersions}

DataArrays ==
    [encoding : {"four_byte", "eight_byte", "malformed"},
     tag_len : 1..MaxTagLen,
     preamble_ok : BOOLEAN,
     preamble_len : 0..MaxPreambleLen,
     metadata : Metadatas,
     deserializer_ok : BOOLEAN]

WellFormedInput ==
    [encoding |-> "four_byte", tag_len |-> 1, preamble_ok |-> TRUE, preamble_len |-> 1,
     metadata |-> Metadata(TRUE, TRUE, "0.0.2"), deserializer_ok |-> TRUE]

\* clp::ErrorCode_Success, the value try_get_pos returns
ErrorCode_Success == 0

\* (variant: an eight-byte encoding is let through)
validate_encoding_type_any_width(input) ==
    [thrown |-> IF input.encoding = "malformed" THEN "MetadataCorrupted" ELSE "",
     pos |-> input.tag_len]

\* rewind_reader_and_validate_encoding_type: seeks to 0, reads the encoding
\* type; `thrown` is the error code of the exception, "" if none; pos is the
\* reader's position afterwards
rewind_reader_and_validate_encoding_type(input) ==
    [thrown |-> CASE input.encoding = "malformed" -> "MetadataCorrupted"
                  [] input.encoding = "eight_byte" -> "Unsupported"
                  [] OTHER -> "",
     pos |-> 0 + input.tag_len]

\* (variant: a preamble that cannot be deserialized is reported as corrupted
\* metadata)
get_version_corrupted_on_preamble(input, pos) ==
    [thrown |-> IF ~input.preamble_ok \/ ~input.metadata.parses
                    \/ ~input.metadata.has_version
                THEN "MetadataCorrupted" ELSE "",
     version |-> input.metadata.version,
     pos |-> pos + input.preamble_len]

\* get_version: deserializes the preamble, parses the metadata as JSON and
\* reads its version key
get_version(input, pos) ==
    [thrown |-> CASE ~input.preamble_ok -> "Failure"
                  [] ~input.metadata.parses -> "MetadataCorrupted"
                  [] ~input.metadata.has_version -> "MetadataCorrupted"
                  [] OTHER -> "",
     version |-> input.metadata.version,
     pos |-> pos + input.preamble_len]

\* UnstructuredIrStreamReader::create: sets up the event deserializer
UnstructuredIrStreamReader_create(input) ==
    IF input.deserializer_ok THEN "Instance" ELSE "MetadataCorrupted"

NotCreated ==
    [outcome |-> "none", validated_pos |-> 0, reader_offset |-> 0, probed_pos |-> 0,
     final_pos |-> 0]

CreateResult(outcome, validated_pos, reader_offset, probed_pos, final_pos) ==
    [outcome |-> outcome, validated_pos |-> validated_pos,
     reader_offset |-> reader_offset, probed_pos |-> probed_pos, final_pos |-> final_pos]

\* StreamReader::create.  reader_offset is handed to try_get_pos by reference
\* and then assigned the error code the call returns.
create(input) ==
    LET validated == rewind_reader_and_validate_encoding_type(input)
        reader_offset == ErrorCode_Success
        probed == get_version(input, validated.pos)
    IN  IF validated.thrown # ""
        THEN CreateResult(validated.thrown, validated.pos, 0, validated.pos, validated.pos)
        ELSE IF probed.thrown # ""
        THEN CreateResult(probed.thrown, validated.pos, reader_offset, probed.pos,
                          probed.pos)
        ELSE IF probed.version \in cUnstructuredIrVersions
        THEN CreateResult(UnstructuredIrStreamReader_create(input), validated.pos,
                          reader_offset, probed.pos, reader_offset)
        ELSE CreateResult("Unsupported", validated.pos, reader_offset, probed.pos,
                          reader_offset)

(***************************************************************************)
(* The filter index of the stream reader (StreamReader::filter_log_events, *)
(* get_filtered_log_event_map and decode_range with use_filter).  A        *)
(* log_level_filter is null ("all") or a list of levels.                   *)
(***************************************************************************)
MatchAll == [all |-> TRUE, levels |-> {}]
LevelFilter(levels) == [all |-> FALSE, levels |-> levels]
NoFilter == [all |-> FALSE, levels |-> {-1}]

\* log_level_filter values callers pass
LevelFilters == {MatchAll, LevelFilter({3}), LevelFilter({cLogLevelNone})}

\* std::optional<std::vector<size_t>>
NullOpt == [has_value |-> FALSE, value |-> <<>>]
Some(indices) == [has_value |-> TRUE, value |-> indices]

\* the level filtering resolves for an unstructured event: the first match of
\* the table on its message behind the first character, none without a match
EventLogLevel(log_event) ==
    LET decoded == generic_decode_message(log_event)
    IN  IF decoded.ok /\ ~SubstrRaises(decoded.message)
        THEN LogLevelOf(decoded.message)
        ELSE cLogLevelNone

\* (variant: the positions are counted from 1)
MatchingIndicesFromOne(log_events, levels) ==
    SelectSeq([i \in 1..Len(log_events) |-> i],
              LAMBDA idx : EventLogLevel(log_events[idx]) \in levels)

\* the indices of the events whose level is one of levels, in buffer order
MatchingIndices(log_events, levels) ==
    SelectSeq([i \in 1..Len(log_events) |-> i - 1],
              LAMBDA idx : EventLogLevel(log_events[idx + 1]) \in levels)

\* (variant: the matches are appended to the index that is there)
FilterPatchesIndex(filtered_map, log_events, log_level_filter) ==
    IF log_level_filter.all THEN NullOpt
    ELSE Some(filtered_map.value \o MatchingIndices(log_events, log_level_filter.levels))

\* filter_log_events: the index is cleared for "all" and rebuilt from scratch
\* for a list of levels
filter_log_events(filtered_map, log_events, log_level_filter) ==
    IF log_level_filter.all THEN NullOpt
    ELSE Some(MatchingIndices(log_events, log_level_filter.levels))

get_filtered_log_event_map == m_filtered_log_event_map

get_num_events_buffered == Len(m_log_events)

\* the loop of decode_range over the filter index: the event of working
\* index begin_idx + offset is log_events[filtered[begin_idx + offset]], its
\* number is its position in the whole buffer
RECURSIVE DecodeFilteredSpan(_, _, _, _, _, _)
DecodeFilteredSpan(log_events, filtered, begin_idx, end_idx, offset, results) ==
    IF begin_idx + offset >= end_idx
    THEN [kind |-> "array", tuples |-> results, failed_at |-> -1]
    ELSE LET log_event_idx == filtered[begin_idx + offset + 1]
         IN  IF log_event_idx >= Len(log_events) THEN NullResult
             ELSE LET log_event == log_events[log_event_idx + 1]
                      decoded == generic_decode_message(log_event)
                  IN  IF ~decoded.ok THEN RenderFailure(log_event_idx, results)
                      ELSE IF SubstrRaises(decoded.message)
                      THEN [kind |-> "out_of_range", tuples |-> <<>>, failed_at |-> -1]
                      ELSE DecodeFilteredSpan(log_events, filtered, begin_idx, end_idx,
                              offset + 1,
                              Append(results,
                                 <<insert_formatted_timestamp(log_event.timestamp,
                                                              decoded.message),
                                   log_event.timestamp,
                                   LogLevelOf(decoded.message),
                                   log_event_idx + 1>>))

\* decode_range: the working space is the filter index when use_filter is
\* set and an index is present, and the whole buffer otherwise
decode_range(log_events, filtered_map, begin_idx, end_idx, use_filter) ==
    IF use_filter /\ filtered_map.has_value
    THEN IF begin_idx > end_idx \/ end_idx > Len(filtered_map.value) THEN NullResult
         ELSE DecodeFilteredSpan(log_events, filtered_map.value, begin_idx, end_idx,
                                 0, <<>>)
    ELSE decode(log_events, begin_idx, end_idx)

\* the stream reader's filter state after construction
ReaderConstructed ==
    /\ m_filtered_log_event_map = NullOpt
    /\ lastFilter = NoFilter

(***************************************************************************)
(* StructuredIrUnitHandler: the IR units of a structured stream.  A node   *)
(* id member is an optional, <<>> without a value and <<id>> with one.  A  *)
(* log event maps the node ids of the tree to values.                      *)
(***************************************************************************)
IRErrorCode_Success == "IRErrorCode_Success"

cRootId == 0

LogLevelKey == "log_level"
TimestampKey == "timestamp"

\* key names of inserted schema tree nodes
KeyNames == {LogLevelKey, TimestampKey, "thread"}

\* values the kv-pairs of an event hold
NodeValues == {3, 5}

UtcOffsets == {0, 3600}

NoUnit == [unit |-> "none", result |-> "", args |-> <<>>]

StructuredIrUnitHandlerConstructed(log_level_key, timestamp_key) ==
    [m_log_level_key |-> log_level_key,
     m_timestamp_key |-> timestamp_key,
     m_current_node_id |-> cRootId,
     m_log_level_node_id |-> <<>>,
     m_timestamp_node_id |-> <<>>,
     m_deserialized_log_events |-> <<>>]

\* (variant: the cached timestamp node is dropped when the offset changes)
UtcOffsetChangeDropsTimestampNode(h, utc_offset_old, utc_offset_new) ==
    [handler |-> [h EXCEPT !.m_timestamp_node_id = <<>>],
     result |-> IRErrorCode_Success]

\* static: logs a warning and returns success
handle_utc_offset_change(h, utc_offset_old, utc_offset_new) ==
    [handler |-> h, result |-> IRErrorCode_Success]

\* static
handle_end_of_stream(h) == [handler |-> h, result |-> IRErrorCode_Success]

\* the inserted node gets the next id; the id is cached when the node's key
\* is the log-level or timestamp key and no id of that role is cached yet
handle_schema_tree_node_insertion(h, key_name) ==
    LET id == h.m_current_node_id + 1
        counted == [h EXCEPT !.m_current_node_id = id]
    IN  [handler |->
            IF key_name = h.m_log_level_key /\ h.m_log_level_node_id = <<>>
            THEN [counted EXCEPT !.m_log_level_node_id = <<id>>]
            ELSE IF key_name = h.m_timestamp_key /\ h.m_timestamp_node_id = <<>>
            THEN [counted EXCEPT !.m_timestamp_node_id = <<id>>]
            ELSE counted,
         result |-> IRErrorCode_Success]

\* the value at the cached log-level node, none if no node is cached
get_log_level(h, id_value_pairs) ==
    IF h.m_log_level_node_id = <<>> THEN cLogLevelNone
    ELSE id_value_pairs[h.m_log_level_node_id[1]]

get_timestamp(h, id_value_pairs) ==
    IF h.m_timestamp_node_id = <<>> THEN 0
    ELSE id_value_pairs[h.m_timestamp_node_id[1]]

\* buffers the event with its level and timestamp
handle_log_event(h, log_event) ==
    [handler |->
        [h EXCEPT !.m_deserialized_log_events =
            Append(@, [log_event |-> log_event,
                       log_level |-> get_log_level(h, log_event),
                       timestamp |-> get_timestamp(h, log_event)])],
     result |-> IRErrorCode_Success]

HandlerConstructed ==
    /\ handler = StructuredIrUnitHandlerConstructed(LogLevelKey, TimestampKey)
    /\ lastHandled = NoUnit

NoDecode ==
    [call |-> <<>>, size |-> 0, pass |-> "NotStarted", kind |-> "none", tuples |-> <<>>,
     failed_at |-> -1, use_filter |-> FALSE]

\* the state of a ClpIrV1Decoder after its construction
DecoderConstructed ==
    /\ readPos = 0
    /\ m_log_events = <<>>
    /\ capacity = 0
    /\ m_data_buffer = "owned"
    /\ pc = "idle"
    /\ passState = "NotStarted"
    /\ numDeserializeCalls = 0
    /\ numReleases = 0
    /\ numBuildCalls = 0
    /\ firstBuild = NoOutcome
    /\ lastBuild = NoOutcome
    /\ lastBuildArgs = <<>>
    /\ lastDecode = NoDecode

Init ==
    /\ stream \in Streams
    /\ DecoderConstructed
    /\ data_array = WellFormedInput
    /\ createResult = NotCreated
    /\ ReaderConstructed
    /\ HandlerConstructed

\* the guard at the head of build_idx
PartialRangeRejected(begin_idx, end_idx) ==
    0 # begin_idx /\ cFullRangeEndIdx # end_idx

\* (variant: the guard tests m_log_events.empty() instead of the capacity)
NeedsBuildWhenEmpty(cap) == Len(m_log_events) = 0

\* whether build_idx runs the deserialization loop
NeedsBuild(cap) == 0 = cap

\* build_idx up to the head of its while loop, or to its return when the
\* loop is not entered
BuildIdx(begin_idx, end_idx) ==
    /\ pc = "idle"
    /\ numBuildCalls < MaxBuildCalls
    /\ numBuildCalls' = numBuildCalls + 1
    /\ lastBuildArgs' = <<begin_idx, end_idx>>
    /\ IF PartialRangeRejected(begin_idx, end_idx)
       THEN /\ lastBuild' = Thrown("Unsupported", numBuildCalls + 1)
            /\ UNCHANGED <<capacity, pc, passState>>
       ELSE IF NeedsBuild(capacity)
       THEN /\ capacity' = reserve(capacity, cDefaultNumLogEvents)
            /\ pc' = "loop"
            /\ passState' = "Reading"
            /\ lastBuild' = NoOutcome
       ELSE /\ lastBuild' = Returned(Len(m_log_events), numBuildCalls + 1)
            /\ UNCHANGED <<capacity, pc, passState>>
    /\ lastDecode' = NoDecode
    /\ UNCHANGED <<stream, readPos, m_log_events, m_data_buffer, numDeserializeCalls,
                   numReleases, firstBuild, createVars, filterVars, handlerVars>>

\* m_data_buffer.reset(nullptr) frees the buffer if one is owned
ReleasesOnReset(buffer) == IF buffer = "owned" THEN 1 ELSE 0

\* the errors on which the loop is left by break; any other error is thrown
\* as ErrorCode_Corrupt
BreaksLoop(error) == error = no_message_available \/ error = result_out_of_range

\* (variant: the buffer is kept when the stream is truncated)
ResetAfterEosOnly(error) == error = no_message_available

\* whether the exit through this error reaches m_data_buffer.reset(nullptr)
ResetAfter(error) == BreaksLoop(error)

\* (variant: the deserialized event is put in front of the stored ones)
EmplaceFront(log_events, value) == <<value>> \o log_events

\* (variant: the deserialized event is not stored)
EmplaceBackDropsEvent(log_events, value) == log_events

\* m_log_events.emplace_back(result.value())
emplace_back(log_events, value) == Append(log_events, value)

\* the pass state the loop moves to on an error of the deserializer
PassStateAfter(error) ==
    CASE error = no_message_available -> "Done"
      [] error = result_out_of_range -> "Truncated"
      [] OTHER -> "Fatal"

\* one iteration of the while loop of build_idx, with what follows the loop
\* when the iteration leaves it
DeserializeStep ==
    /\ pc = "loop"
    /\ \E eof_error \in {no_message_available, result_out_of_range} :
         LET result == deserialize_log_event(stream, readPos + 1, eof_error)
             outcome == IF BreaksLoop(result.error)
                        THEN Returned(Len(m_log_events), numBuildCalls)
                        ELSE Thrown("Corrupt", numBuildCalls)
         IN  /\ readPos' = readPos + 1
             /\ numDeserializeCalls' = numDeserializeCalls + 1
             /\ IF ~result.has_error
                THEN /\ m_log_events' = emplace_back(m_log_events, result.value[1])
                     /\ capacity' = CapacityAfterEmplace(capacity, Len(m_log_events))
                     /\ UNCHANGED <<pc, passState, m_data_buffer, numReleases,
                                    firstBuild, lastBuild>>
                ELSE /\ pc' = "idle"
                     /\ passState' = PassStateAfter(result.error)
                     /\ firstBuild' = outcome
                     /\ lastBuild' = outcome
                     /\ IF ResetAfter(result.error)
                        THEN /\ m_data_buffer' = "null"
                             /\ numReleases' = numReleases + ReleasesOnReset(m_data_buffer)
                        ELSE UNCHANGED <<m_data_buffer, numReleases>>
                     /\ UNCHANGED <<m_log_events, capacity>>
    /\ UNCHANGED <<stream, numBuildCalls, lastBuildArgs, lastDecode, createVars,
                   filterVars, handlerVars>>

Decode(begin_idx, end_idx) ==
    /\ pc = "idle"
    /\ lastDecode' = [call |-> <<begin_idx, end_idx>>, size |-> Len(m_log_events),
                       pass |-> passState, use_filter |-> FALSE]
                        @@ decode(m_log_events, begin_idx, end_idx)
    /\ lastBuild' = NoOutcome
    /\ lastBuildArgs' = <<>>
    /\ UNCHANGED <<stream, readPos, m_log_events, capacity, m_data_buffer, pc, passState,
                   numDeserializeCalls, numReleases, numBuildCalls, firstBuild,
                   createVars, filterVars, handlerVars>>

\* arguments callers pass to build_idx: the full range and partial ranges
BuildArgs == {0, 1}

Next ==
    \/ \E b \in BuildArgs, e \in BuildArgs : BuildIdx(b, e)
    \/ DeserializeStep
    \/ \E b \in 0..MaxIdx, e \in 0..MaxIdx : Decode(b, e)

Spec == Init /\ [][Next]_vars

(***************************************************************************)
(* The build pass on its own: build_idx calls and the iterations of its    *)
(* loop.  build_idx is synchronous, so once the loop is entered its        *)
(* iterations keep being executed: weak fairness of DeserializeStep.       *)
(***************************************************************************)
NextBuild ==
    \/ \E b \in BuildArgs, e \in BuildArgs : BuildIdx(b, e)
    \/ DeserializeStep

SpecBuild == Init /\ [][NextBuild]_vars /\ WF_vars(DeserializeStep)

(***************************************************************************)
(* The specification of StreamReader::create: the input is any of          *)
(* DataArrays and create is applied to it once.                            *)
(***************************************************************************)
InitCreate ==
    /\ stream = <<>>
    /\ DecoderConstructed
    /\ data_array \in DataArrays
    /\ createResult = NotCreated
    /\ ReaderConstructed
    /\ HandlerConstructed

Create ==
    /\ createResult = NotCreated
    /\ createResult' = create(data_array)
    /\ UNCHANGED <<stream, readPos, m_log_events, capacity, m_data_buffer, pc, passState,
                   numDeserializeCalls, numReleases, numBuildCalls, firstBuild, lastBuild,
                   lastBuildArgs, lastDecode, data_array, filterVars, handlerVars>>

NextCreate == Create

SpecCreate == InitCreate /\ [][NextCreate]_vars

(***************************************************************************)
(* The specification of the stream reader with its filter index: the build *)
(* pass, filter_log_events and decode_range over either working space.     *)
(***************************************************************************)
\* streams of event records with at most one marker, at their end
FilterStreams == {s \in Streams : \A i \in 1..(Len(s) - 1) : s[i].kind = "Event"}

InitFilter ==
    /\ stream \in FilterStreams
    /\ DecoderConstructed
    /\ data_array = WellFormedInput
    /\ createResult = NotCreated
    /\ ReaderConstructed
    /\ HandlerConstructed

FilterLogEvents(log_level_filter) ==
    /\ pc = "idle"
    /\ lastFilter' = log_level_filter
    /\ lastBuild' = NoOutcome
    /\ lastBuildArgs' = <<>>
    /\ lastDecode' = NoDecode
    /\ m_filtered_log_event_map' =
          filter_log_events(m_filtered_log_event_map, m_log_events, log_level_filter)
    /\ UNCHANGED <<stream, readPos, m_log_events, capacity, m_data_buffer, pc, passState,
                   numDeserializeCalls, numReleases, numBuildCalls, firstBuild,
                   createVars, handlerVars>>

DecodeRange(begin_idx, end_idx, use_filter) ==
    /\ pc = "idle"
    /\ lastDecode' = [call |-> <<begin_idx, end_idx>>, size |-> Len(m_log_events),
                       pass |-> passState, use_filter |-> use_filter]
                        @@ decode_range(m_log_events, m_filtered_log_event_map,
                                        begin_idx, end_idx, use_filter)
    /\ lastBuild' = NoOutcome
    /\ lastBuildArgs' = <<>>
    /\ UNCHANGED <<stream, readPos, m_log_events, capacity, m_data_buffer, pc, passState,
                   numDeserializeCalls, numReleases, numBuildCalls, firstBuild,
                   createVars, filterVars, handlerVars>>

\* ranges callers ask for: the prefixes of the working space and one range
\* inside it
RangeArgs == {<<0, e>> : e \in 0..MaxIdx} \cup {<<1, 2>>}

NextFilter ==
    \/ BuildIdx(0, cFullRangeEndIdx)
    \/ DeserializeStep
    \/ \E f \in LevelFilters : FilterLogEvents(f)
    \/ \E range \in RangeArgs, use_filter \in BOOLEAN :
          DecodeRange(range[1], range[2], use_filter)

SpecFilter == InitFilter /\ [][NextFilter]_vars

(***************************************************************************)
(* The specification of StructuredIrUnitHandler: the deserializer hands it *)
(* the IR units of a structured stream one by one.                         *)
(***************************************************************************)
InitHandler ==
    /\ stream = <<>>
    /\ DecoderConstructed
    /\ data_array = WellFormedInput
    /\ createResult = NotCreated
    /\ ReaderConstructed
    /\ HandlerConstructed

\* the events a stream can hold when its tree has the nodes 1 .. n
StructuredLogEvents(n) == {[id \in 1..n |-> v] : v \in NodeValues}

Handled(unit, args, handled) ==
    /\ handler' = handled.handler
    /\ lastHandled' = [unit |-> unit, result |-> handled.result, args |-> args]
    /\ UNCHANGED <<stream, readPos, m_log_events, capacity, m_data_buffer, pc, passState,
                   numDeserializeCalls, numReleases, numBuildCalls, firstBuild, lastBuild,
                   lastBuildArgs, lastDecode, createVars, filterVars>>

HandleLogEvent(log_event) ==
    /\ Len(handler.m_deserialized_log_events) < MaxStructuredEvents
    /\ Handled("log_event", <<log_event>>, handle_log_event(handler, log_event))

HandleUtcOffsetChange(utc_offset_old, utc_offset_new) ==
    Handled("utc_offset_change", <<utc_offset_old, utc_offset_new>>,
            handle_utc_offset_change(handler, utc_offset_old, utc_offset_new))

HandleSchemaTreeNodeInsertion(key_name) ==
    /\ handler.m_current_node_id < MaxNodes
    /\ Handled("schema_tree_node_insertion", <<key_name>>,
               handle_schema_tree_node_insertion(handler, key_name))

HandleEndOfStream ==
    Handled("end_of_stream", <<>>, handle_end_of_stream(handler))

NextHandler ==
    \/ \E log_event \in StructuredLogEvents(handler.m_current_node_id) :
          HandleLogEvent(log_event)
    \/ \E old \in UtcOffsets, new \in UtcOffsets : HandleUtcOffsetChange(old, new)
    \/ \E key_name \in KeyNames : HandleSchemaTreeNodeInsertion(key_name)
    \/ HandleEndOfStream

SpecHandler == InitHandler /\ [][NextHandler]_vars

(***************************************************************************)
(* Properties of ClpIrV1Decoder, checked under Spec.                       *)
(***************************************************************************)
\* the pass of the first build has ended at end-of-stream or at a truncation
PassEnded == passState \in {"Done", "Truncated"}

\* the number of event records in front of the first record that is no event
RECURSIVE LeadingEvents(_)
LeadingEvents(records) ==
    IF records = <<>> \/ Head(records).kind # "Event" THEN 0
    ELSE 1 + LeadingEvents(Tail(records))

\* C1: build is idempotent.  Once a build_idx call has returned a count at
\* end-of-stream or truncation, no later step appends an event, invokes the
\* deserializer or reads the source, and every later build_idx call that
\* returns a count returns the count of that first call.
C1_BuildIdempotent ==
    [][firstBuild.kind = "count" =>
          /\ m_log_events' = m_log_events
          /\ numDeserializeCalls' = numDeserializeCalls
          /\ readPos' = readPos
          /\ (lastBuild'.kind = "count" =>
                lastBuild'.numValidEvents = firstBuild.numValidEvents)]_vars

\* a later build_idx call has returned a count on a built, non-empty buffer
C1_Witness ==
    /\ firstBuild.kind = "count"
    /\ lastBuild.kind = "count"
    /\ lastBuild.call > firstBuild.call
    /\ Len(m_log_events) >= 1
    /\ Len(stream) > readPos

\* C2: with N events buffered, decode(b, e) returns null exactly when b > e,
\* or e > N, or b is negative; for 0 <= b <= e <= N, the empty range b = e
\* included, it returns an array.
C2_NullExactlyWhenUnsatisfiable ==
    lastDecode.kind # "none" =>
        LET b == lastDecode.call[1]
            e == lastDecode.call[2]
            N == lastDecode.size
        IN  (lastDecode.kind = "null") <=> (b > e \/ e > N \/ b < 0)

\* C3: after a build that failed with ErrorCode_Corrupt the events decoded
\* before the fault are not exposed: get_estimated_num_events does not count
\* them and decode returns no tuple for them.
C3_PartialEventsNotExposed ==
    passState = "Fatal" =>
        /\ get_estimated_num_events = 0
        /\ (lastDecode.pass = "Fatal" => lastDecode.tuples = <<>>)

\* C4: once a build_idx call has failed with ErrorCode_Corrupt, no later
\* build_idx call on the instance returns a count.
C4_NoCountAfterCorrupt ==
    firstBuild.kind = "Corrupt" => lastBuild.kind # "count"

\* C5 as claimed: the backing buffer is released exactly once, when the pass
\* reaches Done, Truncated or Fatal: not while the pass is Reading (or not
\* started), not twice, and in every terminal state, Fatal included.
C5_ReleasedAtEveryTerminalState ==
    /\ numReleases <= 1
    /\ passState \in {"NotStarted", "Reading"} =>
            (m_data_buffer = "owned" /\ numReleases = 0)
    /\ passState \in {"Done", "Truncated", "Fatal"} =>
            (m_data_buffer = "null" /\ numReleases = 1)

\* C5 as amended: the backing buffer is released exactly once, when the pass
\* reaches Done or Truncated: not before, not twice; a pass that ends Fatal
\* leaves the buffer owned by the instance.
C5_ReleasedOnceAtDoneOrTruncated ==
    /\ numReleases <= 1
    /\ passState \in {"NotStarted", "Reading", "Fatal"} =>
            (m_data_buffer = "owned" /\ numReleases = 0)
    /\ PassEnded => (m_data_buffer = "null" /\ numReleases = 1)

\* the pass has ended at a truncation, the buffer is released, and a later
\* build_idx call has returned
C5_Witness ==
    /\ passState = "Truncated"
    /\ numReleases = 1
    /\ lastBuild.call > firstBuild.call
    /\ lastBuild.kind = "count"

\* C6: get_estimated_num_events is 0 before the first build; when the pass
\* ends at end-of-stream or truncation, the count build_idx returns and
\* get_estimated_num_events both equal the number of event records in front
\* of the first end-of-stream or cut-off record.
C6_CountIsLeadingEvents ==
    /\ passState = "NotStarted" => get_estimated_num_events = 0
    /\ PassEnded =>
          /\ firstBuild.numValidEvents = LeadingEvents(stream)
          /\ get_estimated_num_events = LeadingEvents(stream)
          /\ (lastBuild.kind = "count" =>
                lastBuild.numValidEvents = get_estimated_num_events)

\* a pass has buffered two events and a later build_idx call has returned
C6_Witness ==
    /\ PassEnded
    /\ firstBuild.numValidEvents = 2
    /\ get_estimated_num_events = 2
    /\ lastBuild.call > firstBuild.call

\* a stream of k event records, each of which renders, followed by one
\* record cut off mid-record
IsTruncatedStream(records) ==
    /\ Len(records) >= 1
    /\ records[Len(records)].kind = "Incomplete"
    /\ \A i \in 1..(Len(records) - 1) :
          /\ records[i].kind = "Event"
          /\ DecodeMessageFrom(records[i].logtype, records[i].encoded_vars,
                               records[i].dict_vars, 1, 1, 1, <<>>).ok

\* C7: truncation is not fatal.  For a stream of k complete event records
\* followed by one record cut off mid-record, build_idx returns k, raises
\* nothing and keeps the k events, and decode(0, k) returns k tuples.
C7_TruncatedStreamFullyDecodable ==
    (IsTruncatedStream(stream) /\ firstBuild.kind # "none") =>
        LET k == Len(stream) - 1
        IN  /\ firstBuild.kind = "count"
            /\ firstBuild.numValidEvents = k
            /\ Len(m_log_events) = k
            /\ (lastDecode.call = <<0, k>> /\ lastDecode.pass = "Truncated") =>
                  (lastDecode.kind = "array" /\ Len(lastDecode.tuples) = k)

\* C8: in an array returned by decode(b, e) the tuples are in buffer order
\* and the i-th tuple (from 0) carries the event number b + i + 1, the
\* position of its event in the whole buffer.
C8_EventNumberIsBufferPosition ==
    lastDecode.kind = "array" =>
        \A i \in 1..Len(lastDecode.tuples) :
            /\ lastDecode.tuples[i][4] = lastDecode.call[1] + (i - 1) + 1
            /\ lastDecode.tuples[i][2] =
                  m_log_events[lastDecode.call[1] + i].timestamp

\* a range that starts behind the first event and yields two tuples
C8_Witness ==
    /\ lastDecode.kind = "array"
    /\ lastDecode.call[1] >= 1
    /\ Len(lastDecode.tuples) >= 2

(***************************************************************************)
(* Properties of StreamReader::create, checked under SpecCreate.           *)
(***************************************************************************)
Created == createResult.outcome # "none"

\* version probing got as far as reading a version from the metadata
VersionResolved(input) ==
    /\ input.encoding = "four_byte"
    /\ input.preamble_ok
    /\ input.metadata.parses
    /\ input.metadata.has_version

C10_InstanceOnlyForKnownStreams ==
    Created =>
        /\ createResult.outcome = "Instance" =>
              /\ data_array.encoding = "four_byte"
              /\ VersionResolved(data_array)
              /\ data_array.metadata.version \in cUnstructuredIrVersions
        /\ data_array.encoding = "eight_byte" => createResult.outcome = "Unsupported"
        /\ (VersionResolved(data_array)
              /\ data_array.metadata.version \notin cUnstructuredIrVersions) =>
                 createResult.outcome = "Unsupported"

\* create has refused a four-byte stream whose version is not in the table
C10_Witness ==
    /\ Created
    /\ VersionResolved(data_array)
    /\ data_array.metadata.version \notin cUnstructuredIrVersions
    /\ createResult.outcome = "Unsupported"

(***************************************************************************)
(* Further properties of ClpIrV1Decoder::decode, checked under Spec.       *)
(***************************************************************************)
\* the tuple decode makes of the event at buffer index i (from 0)
ExpectedTuple(i) ==
    LET log_event == m_log_events[i + 1]
        message == generic_decode_message(log_event).message
    IN  <<insert_formatted_timestamp(log_event.timestamp, message),
          log_event.timestamp, LogLevelOf(message), i + 1>>

\* C11: when the rendering of the event at buffer index j fails during
\* decode(b, e), the call raises nothing and returns an array that holds
\* exactly the tuples of the events b .. j-1, in order, and no tuple for j
\* or a later event.
C11_RenderFailureTruncatesBatch ==
    lastDecode.failed_at >= 0 =>
        LET b == lastDecode.call[1]
            j == lastDecode.failed_at
        IN  /\ lastDecode.kind = "array"
            /\ b <= j /\ j < lastDecode.call[2]
            /\ ~generic_decode_message(m_log_events[j + 1]).ok
            /\ Len(lastDecode.tuples) = j - b
            /\ \A i \in 1..(j - b) : lastDecode.tuples[i] = ExpectedTuple(b + i - 1)

\* a rendering failure behind an event that was rendered, with another event
\* of the range behind it
C11_Witness ==
    /\ lastDecode.failed_at >= 1
    /\ Len(lastDecode.tuples) >= 1
    /\ lastDecode.call[2] > lastDecode.failed_at + 1

\* the level the first-match rule gives a message: the smallest table index
\* from 1 whose name is a prefix of the message without its first character
IsPrefixOf(name, text) ==
    /\ Len(name) <= Len(text)
    /\ \A k \in 1..Len(name) : text[k] = name[k]

FirstMatchLevel(message) ==
    LET rest == IF message = <<>> THEN <<>> ELSE Tail(message)
        matching == {i \in 1..(Len(cLogLevelNames) - 1) :
                        IsPrefixOf(cLogLevelNames[i + 1], rest)}
    IN  IF matching = {} THEN 0
        ELSE CHOOSE i \in matching : \A k \in matching : i <= k

\* C15: the classification of a rendered message is total and first-match:
\* no decode call ends with an exception of the classification, whatever the
\* message (the empty one included), and the level of every returned tuple
\* is the first match of the table, 0 when nothing matches.
C15_ClassificationTotalFirstMatch ==
    /\ lastDecode.kind # "out_of_range"
    /\ \A i \in 1..Len(lastDecode.tuples) :
          LET log_event == m_log_events[lastDecode.call[1] + i]
          IN  lastDecode.tuples[i][3] =
                  FirstMatchLevel(generic_decode_message(log_event).message)

(***************************************************************************)
(* The reader position in StreamReader::create, checked under SpecCreate.  *)
(***************************************************************************)
\* C16: whenever create gets past the version probing, the offset it keeps
\* and the position it seeks the reader back to are the position the reader
\* had right after the validation of the encoding type, however many bytes
\* get_version consumed.
C16_RestoredToValidatedPosition ==
    (Created /\ VersionResolved(data_array)) =>
        /\ createResult.reader_offset = createResult.validated_pos
        /\ createResult.final_pos = createResult.validated_pos

(***************************************************************************)
(* The range guard of build_idx, checked under Spec.                       *)
(***************************************************************************)
\* C18: a build_idx call whose arguments are not the full range (0, 0) ends
\* with Unsupported, and when it is the first call of the instance it has
\* deserialized nothing and left the events and the backing buffer alone.
C18_PartialRangeAlwaysRejected ==
    (lastBuildArgs # <<>> /\ lastBuildArgs # <<0, cFullRangeEndIdx>>) =>
        /\ lastBuild.kind = "Unsupported"
        /\ (numBuildCalls = 1 =>
              /\ numDeserializeCalls = 0
              /\ m_log_events = <<>>
              /\ m_data_buffer = "owned")

(***************************************************************************)
(* The deserializer and the backing buffer, checked under Spec.            *)
(***************************************************************************)
\* C19: deserialize_log_event is called only while the instance still owns
\* the backing input buffer: every step that makes a call starts in a
\* state where m_data_buffer has not been reset.
C19_DeserializeOnlyWhileBufferOwned ==
    [][numDeserializeCalls' # numDeserializeCalls => m_data_buffer = "owned"]_vars

\* the buffer has been released after a pass of several calls, and build_idx
\* has been called again since
C19_Witness ==
    /\ numDeserializeCalls >= 2
    /\ m_data_buffer = "null"
    /\ lastBuild.kind = "count"
    /\ lastBuild.call > firstBuild.call

(***************************************************************************)
(* Termination of the build pass, checked under SpecBuild.                 *)
(***************************************************************************)
TerminalPassStates == {"Done", "Truncated", "Fatal"}

\* C17: every iteration of the deserialization loop either appends exactly
\* one event and stays in Reading, or appends nothing and moves to one of
\* Done, Truncated and Fatal; from a terminal state no further record is
\* pulled and the state is kept; and a pass that is Reading eventually
\* reaches a terminal state.
C17_PassTerminates ==
    /\ [][pc = "loop" =>
            ( \/ ( /\ Len(m_log_events') = Len(m_log_events) + 1
                   /\ SubSeq(m_log_events', 1, Len(m_log_events)) = m_log_events
                   /\ passState' = "Reading"
                   /\ pc' = "loop" )
              \/ ( /\ m_log_events' = m_log_events
                   /\ passState' \in TerminalPassStates
                   /\ pc' = "idle" ) )]_vars
    /\ [][(passState \in TerminalPassStates) =>
            ( /\ passState' = passState
              /\ numDeserializeCalls' = numDeserializeCalls
              /\ readPos' = readPos )]_vars
    /\ (passState = "Reading" ~> passState \in TerminalPassStates)

\* a pass that ended after appending several events, with a later build_idx
\* call behind it
C17_Witness ==
    /\ passState \in TerminalPassStates
    /\ Len(m_log_events) >= 2
    /\ numBuildCalls >= 2
    /\ pc = "idle"

(***************************************************************************)
(* The event buffer and the filter index, checked under SpecFilter.        *)
(***************************************************************************)
\* C12: the event buffer is append-only and then frozen: over every step of
\* build, decode_range and filter_log_events its length does not decrease
\* and the events stored so far stay at their indices, and from a state in
\* which the build pass has ended the buffer is unchanged.
C12_BufferAppendOnlyThenFrozen ==
    [][/\ Len(m_log_events') >= Len(m_log_events)
       /\ SubSeq(m_log_events', 1, Len(m_log_events)) = m_log_events
       /\ ((passState \in TerminalPassStates) => m_log_events' = m_log_events)]_vars

\* a buffer of several events after the pass has ended, with a second build
\* call, a filter request and a decode_range call behind it
C12_Witness ==
    /\ passState \in TerminalPassStates
    /\ get_num_events_buffered >= 2
    /\ numBuildCalls >= 2
    /\ m_filtered_log_event_map.has_value
    /\ lastDecode.kind = "array"

\* C13: whenever a filter index is present its values are strictly
\* increasing and each is an index of the event buffer, from 0 and below
\* the number of buffered events.
C13_FilterIndexIncreasingAndValid ==
    get_filtered_log_event_map.has_value =>
        LET index == get_filtered_log_event_map.value
        IN  /\ \A i \in 1..Len(index) :
                  0 <= index[i] /\ index[i] < get_num_events_buffered
            /\ \A i \in 1..Len(index), j \in 1..Len(index) :
                  i < j => index[i] < index[j]

\* an index of two events behind a filter request that passes over the first
\* event of the buffer
C13_Witness ==
    /\ m_filtered_log_event_map.has_value
    /\ Len(m_filtered_log_event_map.value) >= 2
    /\ m_filtered_log_event_map.value[1] >= 1

\* the level of a buffered event by the first-match rule, none when its
\* message cannot be rendered
FirstMatchLevelOfEvent(log_event) ==
    LET decoded == generic_decode_message(log_event)
    IN  IF decoded.ok THEN FirstMatchLevel(decoded.message) ELSE 0

\* filtered_map is the index that log_events and log_level_filter determine
IsIndexOf(filtered_map, log_events, log_level_filter) ==
    IF log_level_filter.all THEN ~filtered_map.has_value
    ELSE LET index == filtered_map.value
             wanted == {k \in 0..(Len(log_events) - 1) :
                           FirstMatchLevelOfEvent(log_events[k + 1])
                               \in log_level_filter.levels}
         IN  /\ filtered_map.has_value
             /\ Len(index) = Cardinality(wanted)
             /\ {index[i] : i \in 1..Len(index)} = wanted
             /\ \A i \in 1..(Len(index) - 1) : index[i] < index[i + 1]

\* C14: every filter_log_events(L) step leaves the filter index that the
\* buffer and L determine, whatever index earlier requests left; and once
\* the latest filter request is "all", decode_range with use_filter over
\* the full range gives what decoding the full range unfiltered gives.
C14_FilterIsFunctionOfBufferAndLevels ==
    /\ [][\A f \in LevelFilters :
            FilterLogEvents(f) => IsIndexOf(m_filtered_log_event_map', m_log_events', f)]_vars
    /\ []((/\ lastFilter = MatchAll
           /\ lastDecode.kind # "none"
           /\ lastDecode.use_filter
           /\ lastDecode.call = <<0, Len(m_log_events)>>) =>
             LET unfiltered == decode(m_log_events, 0, Len(m_log_events))
             IN  /\ lastDecode.kind = unfiltered.kind
                 /\ lastDecode.tuples = unfiltered.tuples
                 /\ lastDecode.failed_at = unfiltered.failed_at)

\* the full range of a buffer of several events decoded with use_filter,
\* after a request for "all" that replaced an index of a list of levels
C14_Witness ==
    /\ lastFilter = MatchAll
    /\ ~m_filtered_log_event_map.has_value
    /\ lastDecode.use_filter
    /\ lastDecode.call = <<0, Len(m_log_events)>>
    /\ lastDecode.kind = "array"
    /\ Len(lastDecode.tuples) >= 2

(***************************************************************************)
(* UTC offset changes, checked under SpecHandler.                          *)
(***************************************************************************)
\* C20: handling a UTC-offset-change record gives a success result and
\* leaves the buffered events, the cached log-level and timestamp node ids
\* and the current node id as they were, whatever the old and new offsets.
C20_UtcOffsetChangeHasNoEffect ==
    [][\A old \in UtcOffsets, new \in UtcOffsets :
          HandleUtcOffsetChange(old, new) =>
              ( /\ lastHandled'.result = IRErrorCode_Success
                /\ handler'.m_deserialized_log_events = handler.m_deserialized_log_events
                /\ handler'.m_log_level_node_id = handler.m_log_level_node_id
                /\ handler'.m_timestamp_node_id = handler.m_timestamp_node_id
                /\ handler'.m_current_node_id = handler.m_current_node_id )]_vars

\* an offset change handled behind a buffered event and the caching of both
\* node ids
C20_Witness ==
    /\ lastHandled.unit = "utc_offset_change"
    /\ lastHandled.args[1] # lastHandled.args[2]
    /\ handler.m_log_level_node_id # <<>>
    /\ handler.m_timestamp_node_id # <<>>
    /\ Len(handler.m_deserialized_log_events) >= 1

====
